---- MODULE Spec2Model ----
(***************************************************************************)
(* Model of scripts/network-health-monitor.py: the probe strategies of     *)
(* HealthChecker, the dispatcher check_endpoint, the loop of run_checks,   *)
(* the aggregation of generate_json_output, the status line of             *)
(* generate_console_report and the exit code of main.                      *)
(*                                                                         *)
(* Python dictionaries are records whose DOMAIN is the set of keys that    *)
(* are present, so a missing key is a key outside the DOMAIN.  Times are   *)
(* integers in thousandths of a millisecond (the resolution ping prints),  *)
(* so that fractional latencies such as 1000.004 ms exist in the model.    *)
(* The 'timestamp' key of a result (wall-clock capture time) is left out.  *)
(*                                                                         *)
(* The module also models main of scripts/offboarding-automation.py, with  *)
(* the OffboardingManager and its GLPIClient, and main of                  *)
(* scripts/asset-audit-report.py with its GLPIClient.  Each script has its *)
(* own variables, initial predicate and next-state relation; a script that *)
(* a specification does not run stays in the state "not run".              *)
(***************************************************************************)
EXTENDS Integers, Sequences, FiniteSets, TLC

\* Longest descriptor list of the batch specification.
MaxEndpoints == 2

RESPONSE_TIME_WARN == 1000

RESPONSE_TIME_CRITICAL == 3000

\* n milliseconds in the model's time unit.
Ms(n) == n * 1000

\* dict.get(key, default)
Get(d, key, default) == IF key \in DOMAIN d THEN d[key] ELSE default

\* d[key] = value on a copy of d
SetKey(d, key, value) ==
  [k \in DOMAIN d \cup {key} |-> IF k = key THEN value ELSE d[k]]

\* The two ways a call ends.
Return(v) == [kind |-> "return", value |-> v]

Raise(e) == [kind |-> "raise", exc |-> e]

\* endpoint['key'] on a dictionary without that key
KeyError(key) == [type |-> "KeyError", msg |-> "'" \o key \o "'"]

\* round(t, 2): to a multiple of a hundredth of a millisecond, ties to even.
round2(t) ==
  LET q == t \div 10
      r == t % 10
  IN  10 * (IF r > 5 \/ (r = 5 /\ q % 2 = 1) THEN q + 1 ELSE q)

\* f"{t:.2f}"
fmt2(t) ==
  LET h == round2(t) \div 10
      frac == h % 100
  IN  ToString(h \div 100) \o "."
        \o (IF frac < 10 THEN "0" ELSE "") \o ToString(frac)

\* str(e) without the slice.
Truncate50_whole_message(msg) == msg

\* str(e)[:50]
Truncate50(msg) == IF Len(msg) > 50 THEN SubSeq(msg, 1, 50) ELSE msg

(***************************************************************************)
(* check_http                                                              *)
(***************************************************************************)
\* http_status with the latency graded before the status code.
http_status_latency_first(status_code, elapsed_ms) ==
  IF elapsed_ms > Ms(RESPONSE_TIME_CRITICAL) THEN "critical"
  ELSE IF elapsed_ms > Ms(RESPONSE_TIME_WARN) THEN "warning"
  ELSE IF status_code >= 500 THEN "critical"
  ELSE IF status_code >= 400 THEN "warning"
  ELSE "healthy"

\* http_status that reports the worse of the two grades.
http_status_worse_of_both(status_code, elapsed_ms) ==
  IF status_code >= 500 \/ elapsed_ms > Ms(RESPONSE_TIME_CRITICAL)
    THEN "critical"
  ELSE IF status_code >= 400 \/ elapsed_ms > Ms(RESPONSE_TIME_WARN)
    THEN "warning"
  ELSE "healthy"

http_status(status_code, elapsed_ms) ==
  IF status_code >= 500 THEN "critical"
  ELSE IF status_code >= 400 THEN "warning"
  ELSE IF elapsed_ms > Ms(RESPONSE_TIME_CRITICAL) THEN "critical"
  ELSE IF elapsed_ms > Ms(RESPONSE_TIME_WARN) THEN "warning"
  ELSE "healthy"

\* net is what requests.get does: a response, or one of three exceptions.
\* Every return builds the result from endpoint['name']; without that key
\* the KeyError of the try body reaches 'except Exception', whose handler
\* reads endpoint['name'] again, so the KeyError leaves check_http.
check_http(endpoint, net) ==
  IF "url" \notin DOMAIN endpoint THEN Raise(KeyError("url"))
  ELSE
    LET timeout == Get(endpoint, "timeout", 5) IN
    IF "name" \notin DOMAIN endpoint THEN Raise(KeyError("name"))
    ELSE IF net.get = "response" THEN
      Return([name |-> endpoint.name,
              type |-> "http",
              status |-> http_status(net.status_code, net.elapsed_ms),
              available |-> TRUE,
              response_time_ms |-> round2(net.elapsed_ms),
              http_code |-> net.status_code,
              details |-> "HTTP " \o ToString(net.status_code)])
    ELSE IF net.get = "Timeout" THEN
      Return([name |-> endpoint.name,
              type |-> "http",
              status |-> "critical",
              available |-> FALSE,
              response_time_ms |-> Ms(timeout * 1000),
              details |-> "Connection timeout"])
    ELSE IF net.get = "ConnectionError" THEN
      Return([name |-> endpoint.name,
              type |-> "http",
              status |-> "critical",
              available |-> FALSE,
              details |-> "Connection refused: " \o Truncate50(net.msg)])
    ELSE
      Return([name |-> endpoint.name,
              type |-> "http",
              status |-> "critical",
              available |-> FALSE,
              details |-> "Error: " \o Truncate50(net.msg)])

(***************************************************************************)
(* check_tcp                                                               *)
(***************************************************************************)
\* tcp_status with both thresholds inclusive.
tcp_status_inclusive(elapsed_ms) ==
  IF elapsed_ms >= Ms(RESPONSE_TIME_CRITICAL) THEN "critical"
  ELSE IF elapsed_ms >= Ms(RESPONSE_TIME_WARN) THEN "warning"
  ELSE "healthy"

tcp_status(elapsed_ms) ==
  IF elapsed_ms > Ms(RESPONSE_TIME_CRITICAL) THEN "critical"
  ELSE IF elapsed_ms > Ms(RESPONSE_TIME_WARN) THEN "warning"
  ELSE "healthy"

\* net is what the socket does: connect_ex returns a code, or the address
\* does not resolve (gaierror), or another exception is raised.
check_tcp(endpoint, net) ==
  IF "host" \notin DOMAIN endpoint THEN Raise(KeyError("host"))
  ELSE IF "port" \notin DOMAIN endpoint THEN Raise(KeyError("port"))
  ELSE
    LET port == endpoint.port IN
    IF "name" \notin DOMAIN endpoint THEN Raise(KeyError("name"))
    ELSE IF net.connect = "connect_ex" THEN
      IF net.result = 0 THEN
        Return([name |-> endpoint.name,
                type |-> "tcp",
                status |-> tcp_status(net.elapsed_ms),
                available |-> TRUE,
                response_time_ms |-> round2(net.elapsed_ms),
                details |-> "Port " \o ToString(port) \o " open"])
      ELSE
        Return([name |-> endpoint.name,
                type |-> "tcp",
                status |-> "critical",
                available |-> FALSE,
                details |-> "Port " \o ToString(port) \o " closed or filtered"])
    ELSE IF net.connect = "gaierror" THEN
      Return([name |-> endpoint.name,
              type |-> "tcp",
              status |-> "critical",
              available |-> FALSE,
              details |-> "DNS resolution failed"])
    ELSE
      Return([name |-> endpoint.name,
              type |-> "tcp",
              status |-> "critical",
              available |-> FALSE,
              details |-> "Error: " \o Truncate50(net.msg)])

(***************************************************************************)
(* check_ping                                                              *)
(***************************************************************************)
\* 'avg' in s
ContainsAvg(s) == \E k \in 1..(Len(s) - 2) : SubSeq(s, k, k + 2) = "avg"

\* The output of ping is a sequence of lines; a line is the sequence of its
\* '/'-separated pieces (l.split('/')); a piece is [txt |-> s], on which
\* float() raises ValueError, or [txt |-> s, num |-> t], a number float()
\* parses to t.
LineHasAvg(l) == \E k \in 1..Len(l) : ContainsAvg(l[k].txt)

OutputHasAvg(stdout) == \E n \in 1..Len(stdout) : LineHasAvg(stdout[n])

\* [l for l in output.split('\n') if 'avg' in l][0]
AvgLine(stdout) ==
  stdout[CHOOSE n \in 1..Len(stdout) :
           /\ LineHasAvg(stdout[n])
           /\ \A m \in 1..(n - 1) : ~LineHasAvg(stdout[m])]

\* parse_avg_ms that reports an unreadable time as one beyond the critical
\* threshold.
parse_avg_ms_unreadable_is_slow(stdout) ==
  IF OutputHasAvg(stdout) THEN
    LET avg_line == AvgLine(stdout) IN
    IF Len(avg_line) >= 5 /\ "num" \in DOMAIN avg_line[5]
      THEN avg_line[5].num
      ELSE Ms(RESPONSE_TIME_CRITICAL) + 1
  ELSE Ms(RESPONSE_TIME_CRITICAL) + 1

\* Lines 306-313: the average round-trip time, 0 when it cannot be read.
parse_avg_ms(stdout) ==
  IF OutputHasAvg(stdout) THEN
    LET avg_line == AvgLine(stdout) IN
    IF Len(avg_line) >= 5 /\ "num" \in DOMAIN avg_line[5]
      THEN avg_line[5].num
      ELSE 0
  ELSE 0

ping_status(avg_ms) ==
  IF avg_ms > Ms(RESPONSE_TIME_CRITICAL) THEN "critical"
  ELSE IF avg_ms > Ms(RESPONSE_TIME_WARN) THEN "warning"
  ELSE "healthy"

\* net is what subprocess.run does: the ping process completes with a
\* return code and an output, or TimeoutExpired, or another exception.
check_ping(endpoint, net) ==
  IF "host" \notin DOMAIN endpoint THEN Raise(KeyError("host"))
  ELSE
    LET timeout == Get(endpoint, "timeout", 2) IN
    IF "name" \notin DOMAIN endpoint THEN Raise(KeyError("name"))
    ELSE IF net.run = "completed" THEN
      IF net.returncode = 0 THEN
        LET avg_ms == parse_avg_ms(net.stdout) IN
        Return([name |-> endpoint.name,
                type |-> "ping",
                status |-> ping_status(avg_ms),
                available |-> TRUE,
                response_time_ms |-> round2(avg_ms),
                details |-> "Avg RTT: " \o fmt2(avg_ms) \o "ms"])
      ELSE
        Return([name |-> endpoint.name,
                type |-> "ping",
                status |-> "critical",
                available |-> FALSE,
                details |-> "Host unreachable"])
    ELSE IF net.run = "TimeoutExpired" THEN
      Return([name |-> endpoint.name,
              type |-> "ping",
              status |-> "critical",
              available |-> FALSE,
              details |-> "Ping timeout"])
    ELSE
      Return([name |-> endpoint.name,
              type |-> "ping",
              status |-> "critical",
              available |-> FALSE,
              details |-> "Error: " \o Truncate50(net.msg)])

(***************************************************************************)
(* check_ldap, check_smtp, check_endpoint                                  *)
(***************************************************************************)
\* result['type'] = t on the dictionary a strategy returned
Relabel(outcome, t) ==
  IF outcome.kind = "return"
    THEN Return([outcome.value EXCEPT !.type = t])
    ELSE outcome

\* check_ldap with the LDAPS port as the default.
check_ldap_default_636(endpoint, net) ==
  IF "name" \notin DOMAIN endpoint THEN Raise(KeyError("name"))
  ELSE IF "host" \notin DOMAIN endpoint THEN Raise(KeyError("host"))
  ELSE
    LET endpoint_tcp == [name |-> endpoint.name,
                         host |-> endpoint.host,
                         port |-> Get(endpoint, "port", 636),
                         timeout |-> Get(endpoint, "timeout", 3)]
    IN  Relabel(check_tcp(endpoint_tcp, net), "ldap")

check_ldap(endpoint, net) ==
  IF "name" \notin DOMAIN endpoint THEN Raise(KeyError("name"))
  ELSE IF "host" \notin DOMAIN endpoint THEN Raise(KeyError("host"))
  ELSE
    LET endpoint_tcp == [name |-> endpoint.name,
                         host |-> endpoint.host,
                         port |-> Get(endpoint, "port", 389),
                         timeout |-> Get(endpoint, "timeout", 3)]
    IN  Relabel(check_tcp(endpoint_tcp, net), "ldap")

check_smtp(endpoint, net) ==
  IF "name" \notin DOMAIN endpoint THEN Raise(KeyError("name"))
  ELSE IF "host" \notin DOMAIN endpoint THEN Raise(KeyError("host"))
  ELSE
    LET endpoint_tcp == [name |-> endpoint.name,
                         host |-> endpoint.host,
                         port |-> Get(endpoint, "port", 25),
                         timeout |-> Get(endpoint, "timeout", 5)]
    IN  Relabel(check_tcp(endpoint_tcp, net), "smtp")

\* A descriptor to which the port default of its protocol has been written.
descriptor_with_defaults(endpoint) ==
  IF Get(endpoint, "type", "tcp") = "ldap" THEN
    SetKey(endpoint, "port", Get(endpoint, "port", 389))
  ELSE IF Get(endpoint, "type", "tcp") = "smtp" THEN
    SetKey(endpoint, "port", Get(endpoint, "port", 25))
  ELSE endpoint

\* The descriptor dictionary as check_endpoint and run_checks leave it: the
\* strategies only read it (endpoint[...], endpoint.get), check_ldap and
\* check_smtp write the defaults to the new dictionary endpoint_tcp, and
\* run_checks writes 'critical' and 'type' to the result.
descriptor_after(endpoint) == endpoint

\* endpoint.get('type', 'tcp')
CheckType(endpoint) == Get(endpoint, "type", "tcp")

KnownTypes == {"http", "https", "tcp", "ping", "ldap", "smtp"}

\* check_endpoint that grades an unknown check type 'warning'.
check_endpoint_unknown_is_warning(endpoint, net) ==
  LET check_type == CheckType(endpoint) IN
  IF check_type = "http" \/ check_type = "https" THEN check_http(endpoint, net)
  ELSE IF check_type = "tcp" THEN check_tcp(endpoint, net)
  ELSE IF check_type = "ping" THEN check_ping(endpoint, net)
  ELSE IF check_type = "ldap" THEN check_ldap(endpoint, net)
  ELSE IF check_type = "smtp" THEN check_smtp(endpoint, net)
  ELSE IF "name" \notin DOMAIN endpoint THEN Raise(KeyError("name"))
  ELSE Return([name |-> endpoint.name,
               type |-> check_type,
               status |-> "warning",
               available |-> FALSE,
               details |-> "Unknown check type"])

check_endpoint(endpoint, net) ==
  LET check_type == CheckType(endpoint) IN
  IF check_type = "http" \/ check_type = "https" THEN check_http(endpoint, net)
  ELSE IF check_type = "tcp" THEN check_tcp(endpoint, net)
  ELSE IF check_type = "ping" THEN check_ping(endpoint, net)
  ELSE IF check_type = "ldap" THEN check_ldap(endpoint, net)
  ELSE IF check_type = "smtp" THEN check_smtp(endpoint, net)
  ELSE IF "name" \notin DOMAIN endpoint THEN Raise(KeyError("name"))
  ELSE Return([name |-> endpoint.name,
               type |-> check_type,
               status |-> "unknown",
               available |-> FALSE,
               details |-> "Unknown check type"])

(***************************************************************************)
(* The network calls of the strategies: what each call is given, and the   *)
(* state its socket is left in.                                            *)
(***************************************************************************)
\* requests.get(url, timeout=timeout, allow_redirects=True)
http_call(endpoint) ==
  IF "url" \notin DOMAIN endpoint THEN <<>>
  ELSE [call |-> "requests.get", timeout |-> Get(endpoint, "timeout", 5)]

\* The socket of check_tcp.  sock.close() follows connect_ex inside the try
\* block and is the only close: when settimeout or connect_ex raises, the
\* handlers return without closing, and the socket is closed only when the
\* garbage collector finalizes it, which may or may not have happened when
\* check_tcp returns.
tcp_calls(endpoint, net) ==
  IF "host" \notin DOMAIN endpoint \/ "port" \notin DOMAIN endpoint THEN {<<>>}
  ELSE
    LET timeout == Get(endpoint, "timeout", 3) IN
    {[call |-> "socket.connect_ex", timeout |-> timeout, socket |-> s] :
       s \in IF net.connect = "connect_ex" THEN {"closed"}
                                           ELSE {"closed", "open"}}

\* subprocess.run(['ping', '-c', '3', '-W', str(timeout), host],
\*                timeout=timeout * 3)
ping_call(endpoint) ==
  IF "host" \notin DOMAIN endpoint THEN <<>>
  ELSE LET timeout == Get(endpoint, "timeout", 2) IN
       [call |-> "ping", count |-> 3, W |-> timeout, timeout |-> timeout * 3]

\* The socket of the check_tcp call of check_ldap.
ldap_calls(endpoint, net) ==
  IF "name" \notin DOMAIN endpoint \/ "host" \notin DOMAIN endpoint THEN {<<>>}
  ELSE tcp_calls([name |-> endpoint.name,
                  host |-> endpoint.host,
                  port |-> Get(endpoint, "port", 389),
                  timeout |-> Get(endpoint, "timeout", 3)], net)

\* The socket of the check_tcp call of check_smtp.
smtp_calls(endpoint, net) ==
  IF "name" \notin DOMAIN endpoint \/ "host" \notin DOMAIN endpoint THEN {<<>>}
  ELSE tcp_calls([name |-> endpoint.name,
                  host |-> endpoint.host,
                  port |-> Get(endpoint, "port", 25),
                  timeout |-> Get(endpoint, "timeout", 5)], net)

\* The network call check_endpoint leads to, <<>> when it makes none.
network_calls(endpoint, net) ==
  LET check_type == CheckType(endpoint) IN
  IF check_type = "http" \/ check_type = "https" THEN {http_call(endpoint)}
  ELSE IF check_type = "tcp" THEN tcp_calls(endpoint, net)
  ELSE IF check_type = "ping" THEN {ping_call(endpoint)}
  ELSE IF check_type = "ldap" THEN ldap_calls(endpoint, net)
  ELSE IF check_type = "smtp" THEN smtp_calls(endpoint, net)
  ELSE {<<>>}

(***************************************************************************)
(* generate_json_output, generate_console_report                           *)
(***************************************************************************)
\* sum(1 for r in results if P(r))
Count(results, P(_)) == Cardinality({k \in 1..Len(results) : P(results[k])})

IsCriticalDown(r) == r.status = "critical" /\ r.critical

IsWarning(r) == r.status = "warning"

IsHealthy(r) == r.status = "healthy"

IsCritical(r) == r.status = "critical"

IsDown(r) == ~Get(r, "available", FALSE)

\* json_output with critical_down counted without the 'critical' flag.
json_output_ungated(results) ==
  LET critical_down == Count(results, IsCritical)
      warnings_n == Count(results, IsWarning)
  IN  [overall_status |->
         IF critical_down > 0 THEN "critical"
         ELSE IF warnings_n > 0 THEN "warning"
         ELSE "healthy",
       summary |->
         [total_endpoints |-> Len(results),
          healthy |-> Count(results, IsHealthy),
          warnings |-> warnings_n,
          critical |-> critical_down,
          down |-> Count(results, IsDown)]]

\* The dictionary generate_json_output dumps, without 'generated',
\* 'endpoints' and 'metadata'.
json_output(results) ==
  LET critical_down == Count(results, IsCriticalDown)
      warnings_n == Count(results, IsWarning)
  IN  [overall_status |->
         IF critical_down > 0 THEN "critical"
         ELSE IF warnings_n > 0 THEN "warning"
         ELSE "healthy",
       summary |->
         [total_endpoints |-> Len(results),
          healthy |-> Count(results, IsHealthy),
          warnings |-> warnings_n,
          critical |-> critical_down,
          down |-> Count(results, IsDown)]]

\* The status line of the console report.  health_score is
\* len(healthy) / len(results) * 100, compared here without the division.
console_status_line(results) ==
  LET healthy_n == Count(results, IsHealthy) IN
  IF healthy_n = Len(results) THEN "ALL SYSTEMS OPERATIONAL"
  ELSE IF healthy_n * 100 >= 90 * Len(results) THEN "DEGRADED PERFORMANCE"
  ELSE "CRITICAL ISSUES DETECTED"

\* main_exit_code with the warnings looked at first.
main_exit_code_warnings_first(critical_failures_n, warnings_n) ==
  IF warnings_n > 0 THEN 1
  ELSE IF critical_failures_n > 0 THEN 2
  ELSE 0

\* The code main returns, from the counters of the HealthChecker.
main_exit_code(critical_failures_n, warnings_n) ==
  IF critical_failures_n > 0 THEN 2
  ELSE IF warnings_n > 0 THEN 1
  ELSE 0

\* counter_of that counts a flagged failure only when its status is
\* 'critical'.
counter_of_critical_status_only(result) ==
  IF result.status = "healthy" THEN "successes"
  ELSE IF result.status = "warning" THEN "warnings"
  ELSE IF result.status = "critical" /\ result.critical THEN "critical_failures"
  ELSE ""

\* "Update counters" of run_checks: the counter a result adds one to, "" when
\* it adds to none.
counter_of(result) ==
  IF result.status = "healthy" THEN "successes"
  ELSE IF result.status = "warning" THEN "warnings"
  ELSE IF result.critical THEN "critical_failures"
  ELSE ""

\* append that puts the newest result first.
append_front(list, result) == <<result>> \o list

\* self.results.append(result)
append(list, result) == Append(list, result)

(***************************************************************************)
(* State                                                                   *)
(***************************************************************************)
VARIABLES
  endpoints,          \* the descriptor list main hands to run_checks
  env,                \* env[k]: what the network does when endpoints[k] is probed
  quick,              \* args.quick
  pc,                 \* position of main
  i,                  \* index of the descriptor the loop of run_checks is at
  results,            \* HealthChecker.results
  successes,          \* HealthChecker.successes
  warnings,           \* HealthChecker.warnings
  critical_failures,  \* HealthChecker.critical_failures
  calls,              \* calls[k]: number of check_endpoint calls made for endpoints[k]
  output,             \* the dictionary written by generate_json_output, <<>> before
  console_status,     \* the status line printed by generate_console_report, "" before
  exit_code,          \* the value main returned, -1 before
  exception,          \* the exception that left main, <<>> when none
  probes,             \* probes[k]: the network call made for endpoints[k], <<>> when none
  prev,               \* results and counters at the return of each earlier cycle
  offboarding_pc,     \* position of main of offboarding-automation.py
  offboarding,        \* the OffboardingManager of that main
  glpi_client,        \* the GLPIClient of that main
  ticket,             \* completion summary of the ticket description, <<>> before
  hr_report,          \* summary section of the HR report, <<>> before
  offboarding_exit_code,  \* the value that main returned, -1 before
  audit_glpi,         \* what the GLPI server does at initSession of the audit
  audit_pc,           \* position of main of asset-audit-report.py
  client,             \* the GLPIClient of that main
  fetched,            \* the lists the fetch_ functions have returned so far
  report_files,       \* the report files written by that main
  audit_exit_code     \* the value that main returned, -1 before

\* The state of network-health-monitor.py.
monitor_vars == <<endpoints, env, quick, pc, i, results, successes, warnings,
                  critical_failures, calls, output, console_status, exit_code,
                  exception, probes, prev>>

\* The state of offboarding-automation.py.
offboarding_vars == <<offboarding_pc, offboarding, glpi_client, ticket,
                      hr_report, offboarding_exit_code>>

\* The state of asset-audit-report.py.
audit_vars == <<audit_glpi, audit_pc, client, fetched, report_files, audit_exit_code>>

vars == <<monitor_vars, offboarding_vars, audit_vars>>

(***************************************************************************)
(* Actions                                                                 *)
(***************************************************************************)
\* run_checks up to the loop: self.results = [] (the counters are not reset).
run_checks_begin ==
  /\ pc = "main"
  /\ results' = <<>>
  /\ i' = 1
  /\ pc' = "run_checks"
  /\ UNCHANGED <<probes, prev, endpoints, env, quick, successes, warnings,
                 critical_failures, calls, output, console_status, exit_code,
                 exception>>
  /\ UNCHANGED <<offboarding_vars, audit_vars>>

\* One iteration of the loop of run_checks.  Nothing in run_checks or main
\* catches an exception of check_endpoint: it ends the process.
run_checks_iter ==
  /\ pc = "run_checks"
  /\ i <= Len(endpoints)
  /\ LET endpoint == endpoints[i]
         outcome == check_endpoint(endpoint, env[i])
     IN  /\ calls' = [calls EXCEPT ![i] = @ + 1]
         /\ endpoints' = [endpoints EXCEPT ![i] = descriptor_after(endpoint)]
         /\ \E call \in network_calls(endpoint, env[i]) :
              probes' = [probes EXCEPT ![i] = call]
         /\ IF outcome.kind = "raise"
              THEN /\ pc' = "raised"
                   /\ exception' = SetKey(outcome.exc, "in", "run_checks")
                   /\ UNCHANGED <<i, results, successes, warnings,
                                  critical_failures>>
              ELSE LET result == SetKey(outcome.value, "critical",
                                        Get(endpoint, "critical", FALSE))
                   IN  /\ results' = append(results, result)
                       /\ successes' =
                            IF counter_of(result) = "successes"
                              THEN successes + 1 ELSE successes
                       /\ warnings' =
                            IF counter_of(result) = "warnings"
                              THEN warnings + 1 ELSE warnings
                       /\ critical_failures' =
                            IF counter_of(result) = "critical_failures"
                              THEN critical_failures + 1
                              ELSE critical_failures
                       /\ i' = i + 1
                       /\ UNCHANGED <<pc, exception>>
  /\ UNCHANGED <<prev, env, quick, output, console_status, exit_code>>
  /\ UNCHANGED <<offboarding_vars, audit_vars>>

\* The loop is over: run_checks returns self.results to main.
run_checks_return ==
  /\ pc = "run_checks"
  /\ i > Len(endpoints)
  /\ pc' = "generate_json_output"
  /\ UNCHANGED <<probes, prev, endpoints, env, quick, i, results, successes,
                 warnings, critical_failures, calls, output, console_status, exit_code,
                 exception>>
  /\ UNCHANGED <<offboarding_vars, audit_vars>>

generate_json_output ==
  /\ pc = "generate_json_output"
  /\ output' = json_output(results)
  /\ pc' = IF quick THEN "exit" ELSE "generate_console_report"
  /\ UNCHANGED <<probes, prev, endpoints, env, quick, i, results, successes,
                 warnings, critical_failures, calls, console_status, exit_code,
                 exception>>
  /\ UNCHANGED <<offboarding_vars, audit_vars>>

\* len(healthy) / len(results) raises ZeroDivisionError on an empty list.
generate_console_report ==
  /\ pc = "generate_console_report"
  /\ IF Len(results) = 0
       THEN /\ pc' = "raised"
            /\ exception' = [type |-> "ZeroDivisionError",
                             msg |-> "division by zero",
                             in |-> "generate_console_report"]
            /\ UNCHANGED console_status
       ELSE /\ console_status' = console_status_line(results)
            /\ pc' = "exit"
            /\ UNCHANGED exception
  /\ UNCHANGED <<probes, prev, endpoints, env, quick, i, results, successes,
                 warnings, critical_failures, calls, output, exit_code>>
  /\ UNCHANGED <<offboarding_vars, audit_vars>>

\* "Determine exit code" of main.
main_exit ==
  /\ pc = "exit"
  /\ exit_code' = main_exit_code(critical_failures, warnings)
  /\ pc' = "done"
  /\ UNCHANGED <<probes, prev, endpoints, env, quick, i, results, successes,
                 warnings, critical_failures, calls, output, console_status, exception>>
  /\ UNCHANGED <<offboarding_vars, audit_vars>>

\* Longest sequence of cycles run on one HealthChecker.
MaxCycles == 2

\* A caller that schedules repeated cycles calls run_checks again on the
\* same HealthChecker: self.results = [] and nothing else is reset.
run_checks_again ==
  /\ pc = "generate_json_output"
  /\ Len(prev) + 1 < MaxCycles
  /\ prev' = Append(prev, [results |-> results,
                           successes |-> successes,
                           warnings |-> warnings,
                           critical_failures |-> critical_failures])
  /\ results' = <<>>
  /\ i' = 1
  /\ calls' = [k \in 1..Len(endpoints) |-> 0]
  /\ pc' = "run_checks"
  /\ UNCHANGED <<probes, endpoints, env, quick, successes, warnings,
                 critical_failures, output, console_status, exit_code,
                 exception>>
  /\ UNCHANGED <<offboarding_vars, audit_vars>>

Next ==
  \/ run_checks_begin
  \/ run_checks_iter
  \/ run_checks_return
  \/ generate_json_output
  \/ generate_console_report
  \/ main_exit

(***************************************************************************)
(* offboarding-automation.py: GLPIClient, OffboardingManager and main.     *)
(* An entry of the audit trail is kept as its action and status; the       *)
(* values \E draws in an action are what the environment does at that      *)
(* point: the answer of the GLPI server, and the operation of a try body   *)
(* that raises.                                                            *)
(***************************************************************************)
\* Python's None, kept apart from every token a server can issue.
None == "None"

\* The truth value Python gives a session token.
Truthy(token) == token # None /\ token # ""

\* {} as a decoded JSON object
EmptyDict == [k \in {} |-> ""]

\* What the GET of initSession can do: 200 with a session token, 200 with
\* a JSON object without one, 200 with a body that is not JSON (no 'json'
\* key: response.json() raises), a rejected login, a server error, or no
\* connection.
InitSessionOutcomes ==
  {[get |-> "response", status_code |-> 200,
    json |-> [session_token |-> "83af7e620c83a50a18d3eac2f6ed05a3ca0bea62"]],
   [get |-> "response", status_code |-> 200, json |-> EmptyDict],
   [get |-> "response", status_code |-> 200],
   [get |-> "response", status_code |-> 401],
   [get |-> "response", status_code |-> 500],
   [get |-> "ConnectionError"]}

\* GLPIClient.init_session of offboarding-automation.py: what it returns
\* and the session token it leaves in the client.
glpi_init_session(net) ==
  IF net.get = "response" THEN
    IF net.status_code = 200 THEN
      IF "json" \in DOMAIN net
        THEN [returns |-> TRUE,
              session_token |-> Get(net.json, "session_token", None)]
        ELSE [returns |-> FALSE, session_token |-> None]
    ELSE [returns |-> FALSE, session_token |-> None]
  ELSE [returns |-> FALSE, session_token |-> None]

\* GLPIClient.create_ticket: the simulated ticket id, None without a
\* session or when the try body raises.
create_ticket(glpi, raises) ==
  IF ~Truthy(glpi.session_token) THEN None
  ELSE IF raises THEN None
  ELSE "9999"

\* OffboardingManager.log_action on the manager o.
log_action(o, action, status) ==
  [o EXCEPT !.audit_trail = Append(@, [action |-> action, status |-> status]),
            !.steps_completed = IF status = "SUCCESS" THEN @ + 1 ELSE @]

\* log_action(a, "SUCCESS") for each a of actions, in order.
RECURSIVE log_successes(_, _)
log_successes(o, actions) ==
  IF actions = <<>> THEN o
  ELSE log_successes(log_action(o, Head(actions), "SUCCESS"), Tail(actions))

\* A try body that logs actions as successes and its except handler, which
\* logs failed as 'FAILED': the operation before the raise_at-th log_action
\* raises, none when raise_at = 0.
try_body(o, actions, raise_at, failed) ==
  IF raise_at = 0 THEN log_successes(o, actions)
  ELSE log_action(log_successes(o, SubSeq(actions, 1, raise_at - 1)),
                  failed, "FAILED")

\* The frame of a step of main that changes the OffboardingManager only.
offboarding_step(from, to) ==
  /\ offboarding_pc = from
  /\ offboarding_pc' = to
  /\ UNCHANGED <<glpi_client, ticket, hr_report, offboarding_exit_code>>
  /\ UNCHANGED <<monitor_vars, audit_vars>>

\* main up to the try block: a failed init_session is logged and main
\* continues without ticketing.
offboarding_init_session ==
  /\ offboarding_pc = "init_session"
  /\ \E net \in InitSessionOutcomes :
       glpi_client' = [session_token |-> glpi_init_session(net).session_token]
  /\ offboarding_pc' = "disable_ad_account"
  /\ UNCHANGED <<offboarding, ticket, hr_report, offboarding_exit_code>>
  /\ UNCHANGED <<monitor_vars, audit_vars>>

disable_ad_account ==
  /\ offboarding_step("disable_ad_account", "revoke_group_memberships")
  /\ \E raise_at \in 0..2 :
       LET o == try_body(offboarding,
                         <<"Disable AD Account", "Set AD Account Description">>,
                         raise_at, "Disable AD Account")
       IN  offboarding' =
             IF raise_at = 0 THEN o ELSE [o EXCEPT !.critical_failure = TRUE]

revoke_group_memberships ==
  /\ offboarding_step("revoke_group_memberships", "disable_mailbox_and_forward")
  /\ offboarding' = log_action(offboarding, "Revoke Group Memberships", "SUCCESS")

disable_mailbox_and_forward ==
  /\ offboarding_step("disable_mailbox_and_forward", "archive_user_files")
  /\ \E raise_at \in 0..3 :
       offboarding' =
         try_body(offboarding,
                  <<"Configure Mail Forwarding", "Hide Mailbox from GAL",
                    "Schedule Mailbox Conversion">>,
                  raise_at, "Mailbox Management")

archive_user_files ==
  /\ offboarding_step("archive_user_files", "revoke_application_access")
  /\ \E raise_at \in 0..2 :
       offboarding' =
         try_body(offboarding,
                  <<"Archive Home Directory", "Grant Manager Archive Access">>,
                  raise_at, "Archive User Files")

revoke_application_access ==
  /\ offboarding_step("revoke_application_access", "disable_remote_access")
  /\ offboarding' = log_action(offboarding, "Revoke Application Access", "SUCCESS")

disable_remote_access ==
  /\ offboarding_step("disable_remote_access", "collect_hardware")
  /\ \E raise_at \in 0..3 :
       offboarding' =
         try_body(offboarding,
                  <<"Revoke VPN Certificates", "Disable RDP Access",
                    "Remove VPN Group Membership">>,
                  raise_at, "Disable Remote Access")

\* collect_hardware, and the test of main that skips the ticket when the
\* client has no session token.
collect_hardware ==
  /\ offboarding_step("collect_hardware",
                      IF Truthy(glpi_client.session_token)
                        THEN "create_offboarding_ticket"
                        ELSE "generate_hr_report")
  /\ offboarding' = log_action(offboarding, "Log Assigned Hardware", "SUCCESS")

\* The description is built, with its completion summary, before the
\* ticket is created and logged.
create_offboarding_ticket ==
  /\ offboarding_pc = "create_offboarding_ticket"
  /\ ticket' =
       [steps_completed |-> offboarding.steps_completed,
        steps_total |-> offboarding.steps_total,
        status |-> IF offboarding.steps_completed = offboarding.steps_total
                     THEN "COMPLETE" ELSE "PARTIAL"]
  /\ \E raises \in BOOLEAN :
       LET ticket_id == create_ticket(glpi_client, raises) IN
       offboarding' =
         IF ticket_id # None
           THEN log_action(offboarding, "Create GLPI Ticket", "SUCCESS")
           ELSE log_action(offboarding, "Create GLPI Ticket", "WARN")
  /\ offboarding_pc' = "generate_hr_report"
  /\ UNCHANGED <<glpi_client, hr_report, offboarding_exit_code>>
  /\ UNCHANGED <<monitor_vars, audit_vars>>

\* generate_hr_report writes the summary (the success rate in tenths of a
\* percent); when open() or a write raises, 'except Exception' of main
\* returns 2.
generate_hr_report ==
  /\ offboarding_pc = "generate_hr_report"
  /\ \E written \in BOOLEAN :
       IF written
         THEN /\ hr_report' =
                   [steps_completed |-> offboarding.steps_completed,
                    steps_total |-> offboarding.steps_total,
                    success_rate |->
                      (offboarding.steps_completed * 1000)
                        \div offboarding.steps_total,
                    critical_failures |->
                      IF offboarding.critical_failure THEN "YES" ELSE "NO"]
              /\ offboarding_pc' = "exit"
              /\ UNCHANGED offboarding_exit_code
         ELSE /\ offboarding_exit_code' = 2
              /\ offboarding_pc' = "done"
              /\ UNCHANGED hr_report
  /\ UNCHANGED <<offboarding, glpi_client, ticket>>
  /\ UNCHANGED <<monitor_vars, audit_vars>>

\* "Determine exit code" of main.
offboarding_exit ==
  /\ offboarding_pc = "exit"
  /\ offboarding_exit_code' =
       IF offboarding.critical_failure THEN 2
       ELSE IF offboarding.steps_completed < offboarding.steps_total THEN 1
       ELSE 0
  /\ offboarding_pc' = "done"
  /\ UNCHANGED <<offboarding, glpi_client, ticket, hr_report>>
  /\ UNCHANGED <<monitor_vars, audit_vars>>

NextOffboarding ==
  \/ offboarding_init_session
  \/ disable_ad_account
  \/ revoke_group_memberships
  \/ disable_mailbox_and_forward
  \/ archive_user_files
  \/ revoke_application_access
  \/ disable_remote_access
  \/ collect_hardware
  \/ create_offboarding_ticket
  \/ generate_hr_report
  \/ offboarding_exit

(***************************************************************************)
(* asset-audit-report.py: GLPIClient, the fetch_ functions and main.       *)
(***************************************************************************)
\* GLPIClient.init_session of asset-audit-report.py: what it returns and
\* the session token it leaves in the client.  A response that is not 200,
\* a body that is not JSON and a failure to connect all return False.
init_session(net) ==
  IF net.get = "response" THEN
    IF net.status_code = 200 THEN
      IF "json" \in DOMAIN net
        THEN [returns |-> TRUE,
              session_token |-> Get(net.json, "session_token", None)]
        ELSE [returns |-> FALSE, session_token |-> None]
    ELSE [returns |-> FALSE, session_token |-> None]
  ELSE [returns |-> FALSE, session_token |-> None]

\* The endpoints main fetches, in order.
Resources ==
  <<"Computer", "Monitor", "Printer", "NetworkEquipment", "Phone",
    "SoftwareLicense">>

\* What the GET of a resource can do: a list of assets, an empty list, a
\* body that is not JSON, a refusal, or no connection.
FetchOutcomes ==
  {[get |-> "response", status_code |-> 200, json |-> <<"NHS-LAP-047">>],
   [get |-> "response", status_code |-> 200, json |-> <<>>],
   [get |-> "response", status_code |-> 200],
   [get |-> "response", status_code |-> 403],
   [get |-> "ConnectionError"]}

\* GLPIClient.get: the decoded body as [value |-> body]; None, as
\* [none |-> TRUE], without a session, for a status other than 200 and for
\* an exception.
client_get(cl, net) ==
  IF ~Truthy(cl.session_token) THEN [none |-> TRUE]
  ELSE IF net.get = "response" /\ net.status_code = 200 /\ "json" \in DOMAIN net
    THEN [value |-> net.json]
  ELSE [none |-> TRUE]

\* fetch_computers ... fetch_software_licenses: 'x if x else []'
fetch(cl, net) ==
  LET x == client_get(cl, net) IN
  IF "none" \in DOMAIN x THEN <<>>
  ELSE IF Len(x.value) = 0 THEN <<>>
  ELSE x.value

\* main up to the try block: 'if not client.init_session(): return 2'.
audit_init_session ==
  /\ audit_pc = "init_session"
  /\ LET r == init_session(audit_glpi) IN
       /\ client' = [session_token |-> r.session_token]
       /\ IF r.returns
            THEN /\ audit_pc' = "fetch"
                 /\ UNCHANGED audit_exit_code
            ELSE /\ audit_pc' = "done"
                 /\ audit_exit_code' = 2
  /\ UNCHANGED <<audit_glpi, fetched, report_files>>
  /\ UNCHANGED <<monitor_vars, offboarding_vars>>

\* The next of the six fetch_ calls of main.
audit_fetch ==
  /\ audit_pc = "fetch"
  /\ Len(fetched) < Len(Resources)
  /\ \E net \in FetchOutcomes : fetched' = Append(fetched, fetch(client, net))
  /\ UNCHANGED <<audit_glpi, audit_pc, client, report_files, audit_exit_code>>
  /\ UNCHANGED <<monitor_vars, offboarding_vars>>

\* The rest of the try block: the analysis, generate_html_report and, with
\* --json, the JSON file; 'return 0' at its end and 'return 1' from
\* 'except Exception' when one of them raises.
audit_generate_report ==
  /\ audit_pc = "fetch"
  /\ Len(fetched) = Len(Resources)
  /\ \E json \in BOOLEAN :
       \E raises \in {"", "analysis", "generate_html_report", "json.dump"} :
         /\ report_files' =
              IF raises \in {"analysis", "generate_html_report"} THEN {}
              ELSE IF json /\ raises = "" THEN {"html", "json"}
              ELSE {"html"}
         /\ audit_exit_code' =
              IF raises = "" \/ (raises = "json.dump" /\ ~json) THEN 0 ELSE 1
  /\ audit_pc' = "done"
  /\ UNCHANGED <<audit_glpi, client, fetched>>
  /\ UNCHANGED <<monitor_vars, offboarding_vars>>

NextAudit ==
  \/ audit_init_session
  \/ audit_fetch
  \/ audit_generate_report

(***************************************************************************)
(* Inputs: descriptors and the behaviour of the network                    *)
(***************************************************************************)
\* del d[key] on a copy of d
Without(d, key) == [k \in DOMAIN d \ {key} |-> d[k]]

HttpEndpoint(t, c) ==
  [name |-> "ep", type |-> t, url |-> "https://glpi.harlenmorris.me",
   critical |-> c, timeout |-> 5]

HostEndpoint(t, c) ==
  [name |-> "ep", type |-> t, host |-> "ehr-db.northwoodshealth.local",
   port |-> 5432, critical |-> c, timeout |-> 3]

PingEndpoint(c) ==
  [name |-> "ep", type |-> "ping", host |-> "vpn.northwoodshealth.org",
   critical |-> c, timeout |-> 2]

\* A check type check_endpoint does not know.
OtherEndpoint(c) == [name |-> "ep", type |-> "dns", critical |-> c]

Response(code, t) == [get |-> "response", status_code |-> code, elapsed_ms |-> t]

HttpTimeout == [get |-> "Timeout"]

HttpConnectionError(m) == [get |-> "ConnectionError", msg |-> m]

HttpException(m) == [get |-> "Exception", msg |-> m]

Connected(t) == [connect |-> "connect_ex", result |-> 0, elapsed_ms |-> t]

\* connect_ex returned ECONNREFUSED.
Refused == [connect |-> "connect_ex", result |-> 111]

\* connect_ex gave up at the connect timeout and returned EWOULDBLOCK.
ConnectTimedOut == [connect |-> "connect_ex", result |-> 11]

GaiError == [connect |-> "gaierror"]

SocketException(m) == [connect |-> "Exception", msg |-> m]

\* "rtt min/avg/max/mdev = 0.123/<avg>/0.789/0.123 ms", split at '/'
RttLine(avg) ==
  << [txt |-> "rtt min"], [txt |-> "avg"], [txt |-> "max"],
     [txt |-> "mdev = 0.123"], [txt |-> "avg-value", num |-> avg],
     [txt |-> "0.789", num |-> 789], [txt |-> "0.123 ms"] >>

StatLine == << [txt |-> "3 packets transmitted, 3 received"] >>

Pinged(t) ==
  [run |-> "completed", returncode |-> 0, stdout |-> <<StatLine, RttLine(t)>>]

\* ping succeeded and printed no rtt line.
PingedNoAvg == [run |-> "completed", returncode |-> 0, stdout |-> <<StatLine>>]

\* ping succeeded and printed a line with 'avg' that has no fifth piece.
PingedBadAvg ==
  [run |-> "completed", returncode |-> 0,
   stdout |-> <<StatLine, << [txt |-> "avg unavailable"] >> >>]

\* ping succeeded and printed an rtt line whose fifth piece is not a number.
PingedJunkAvg ==
  [run |-> "completed", returncode |-> 0,
   stdout |-> <<StatLine,
                << [txt |-> "rtt min"], [txt |-> "avg"], [txt |-> "max"],
                   [txt |-> "mdev = -"], [txt |-> "-"], [txt |-> "-"],
                   [txt |-> "- ms"] >> >>]

Unreachable == [run |-> "completed", returncode |-> 1, stdout |-> <<StatLine>>]

PingTimeoutExpired == [run |-> "TimeoutExpired"]

PingException(m) == [run |-> "Exception", msg |-> m]

\* No network call is made for this descriptor.
NoNet == [none |-> TRUE]

ShortMsg == "Name or service not known"

\* 60 characters
LongMsg == "HTTPSConnectionPool(host='glpi.harlenmorris.me', port=443): "

\* Latencies around the two thresholds.
Latencies ==
  {0, Ms(50), Ms(1000), Ms(1000) + 4, Ms(1001), Ms(3000), Ms(3000) + 1, Ms(5000)}

StatusCodes == {200, 301, 399, 400, 404, 499, 500, 503}

Flags == {TRUE, FALSE}

\* The cases of the batch specification: <<descriptor, network behaviour>>.
BatchCases ==
  {<<HttpEndpoint("http", c), n>> :
     c \in Flags,
     n \in {Response(200, Ms(50)), Response(200, Ms(1500)),
            Response(404, Ms(50)), Response(500, Ms(50)), HttpTimeout}}
  \cup {<<HttpEndpoint("https", TRUE), n>> :
          n \in {Response(200, Ms(50)), HttpConnectionError(ShortMsg)}}
  \cup {<<HostEndpoint("tcp", c), n>> :
          c \in Flags, n \in {Connected(Ms(50)), Refused}}
  \cup {<<Without(HostEndpoint("ldap", TRUE), "port"), n>> :
          n \in {Connected(Ms(50)), GaiError}}
  \cup {<<HostEndpoint("smtp", FALSE), n>> :
          n \in {Connected(Ms(50)), Refused}}
  \cup {<<PingEndpoint(c), n>> :
          c \in Flags, n \in {Pinged(456), Unreachable}}
  \cup {<<OtherEndpoint(c), NoNet>> : c \in Flags}
  \cup {<<HostEndpoint("tcp", TRUE), n>> :
          n \in {ConnectTimedOut, GaiError, SocketException(ShortMsg)}}
  \cup {<<Without(HostEndpoint("tcp", TRUE), "type"), Connected(Ms(50))>>,
        <<Without(HostEndpoint("tcp", FALSE), "critical"), Refused>>,
        <<Without(HostEndpoint("tcp", TRUE), "port"), NoNet>>,
        <<Without(HttpEndpoint("http", TRUE), "url"), NoNet>>,
        <<Without(OtherEndpoint(FALSE), "name"), NoNet>>}

\* What the network can do to the strategy a descriptor is routed to.
NetFor(endpoint) ==
  LET t == CheckType(endpoint) IN
  IF t \in {"http", "https"} THEN
    {Response(code, ms) : code \in StatusCodes, ms \in Latencies}
      \cup {HttpTimeout}
      \cup {HttpConnectionError(m) : m \in {ShortMsg, LongMsg}}
      \cup {HttpException(m) : m \in {ShortMsg, LongMsg}}
  ELSE IF t \in {"tcp", "ldap", "smtp"} THEN
    {Connected(ms) : ms \in Latencies}
      \cup {Refused, ConnectTimedOut, GaiError}
      \cup {SocketException(m) : m \in {ShortMsg, LongMsg}}
  ELSE IF t = "ping" THEN
    {Pinged(ms) : ms \in Latencies}
      \cup {PingedNoAvg, PingedBadAvg, PingedJunkAvg, Unreachable,
            PingTimeoutExpired}
      \cup {PingException(m) : m \in {ShortMsg, LongMsg}}
  ELSE {NoNet}

\* Every subset of the optional keys of a descriptor may be missing.
Variants(d) ==
  {[k \in (DOMAIN d) \ missing |-> d[k]] : missing \in SUBSET (DOMAIN d)}

CompleteDescriptors ==
  {HttpEndpoint(t, c) : t \in {"http", "https"}, c \in Flags}
    \cup {HostEndpoint(t, c) : t \in {"tcp", "ldap", "smtp"}, c \in Flags}
    \cup {PingEndpoint(c) : c \in Flags}
    \cup {OtherEndpoint(c) : c \in Flags}

\* Timeouts a configuration file can give that are not positive.
NonPositiveTimeouts == {0, -1}

ProbeDescriptors ==
  UNION {Variants(d) : d \in CompleteDescriptors}
    \cup {SetKey(d, "timeout", t) :
            d \in CompleteDescriptors, t \in NonPositiveTimeouts}

\* The cases of the single-probe specification.
ProbeCases == UNION {{<<d, n>> : n \in NetFor(d)} : d \in ProbeDescriptors}

\* The descriptor at position k of the list is named after its position.
Named(d, k) ==
  IF "name" \in DOMAIN d THEN [d EXCEPT !.name = "ep" \o ToString(k)] ELSE d

\* OffboardingManager(...) and GLPIClient(...) as constructed.
OffboardingConstructed ==
  /\ offboarding = [audit_trail |-> <<>>, steps_completed |-> 0,
                    steps_total |-> 8, critical_failure |-> FALSE]
  /\ glpi_client = [session_token |-> None]
  /\ ticket = <<>>
  /\ hr_report = <<>>
  /\ offboarding_exit_code = -1

\* offboarding-automation.py is not run.
OffboardingNotRun == offboarding_pc = "not run" /\ OffboardingConstructed

\* GLPIClient(...) of asset-audit-report.py as constructed.
AuditConstructed ==
  /\ client = [session_token |-> None]
  /\ fetched = <<>>
  /\ report_files = {}
  /\ audit_exit_code = -1

\* asset-audit-report.py is not run.
AuditNotRun ==
  /\ audit_pc = "not run"
  /\ audit_glpi = [get |-> "ConnectionError"]
  /\ AuditConstructed

\* network-health-monitor.py is not run.
MonitorNotRun ==
  /\ endpoints = <<>>
  /\ env = <<>>
  /\ quick = FALSE
  /\ pc = "not run"
  /\ i = 0
  /\ results = <<>>
  /\ successes = 0
  /\ warnings = 0
  /\ critical_failures = 0
  /\ calls = <<>>
  /\ output = <<>>
  /\ console_status = ""
  /\ exit_code = -1
  /\ exception = <<>>
  /\ probes = <<>>
  /\ prev = <<>>

\* The state main is in after HealthChecker() for the given cases.
InitWith(cases) ==
  /\ endpoints = [k \in 1..Len(cases) |-> Named(cases[k][1], k)]
  /\ env = [k \in 1..Len(cases) |-> cases[k][2]]
  /\ quick \in BOOLEAN
  /\ pc = "main"
  /\ i = 0
  /\ results = <<>>
  /\ successes = 0
  /\ warnings = 0
  /\ critical_failures = 0
  /\ calls = [k \in 1..Len(cases) |-> 0]
  /\ output = <<>>
  /\ console_status = ""
  /\ exit_code = -1
  /\ exception = <<>>
  /\ probes = [k \in 1..Len(cases) |-> <<>>]
  /\ prev = <<>>
  /\ OffboardingNotRun
  /\ AuditNotRun

\* Batches of up to MaxEndpoints descriptors.
Init ==
  \E n \in 0..MaxEndpoints :
    \E cases \in [1..n -> BatchCases] : InitWith(cases)

Spec == Init /\ [][Next]_vars

\* One descriptor, every shape of it, every behaviour of the network.
InitProbe == \E c \in ProbeCases : InitWith(<<c>>)

SpecProbe == InitProbe /\ [][Next]_vars

\* Repeated cycles on one HealthChecker.
NextCycles == Next \/ run_checks_again

SpecCycles == Init /\ [][NextCycles]_vars

\* Longest descriptor list of the large-batch specification.
LargeBatch == 10

\* An endpoint that answers 200 in 50 ms.
HealthyCase == <<HttpEndpoint("http", TRUE), Response(200, Ms(50))>>

\* Endpoints that are not 'healthy': a refused connection, flagged and
\* unflagged, a 404 and an unknown check type.
UnhealthyCases ==
  {<<HostEndpoint("tcp", TRUE), Refused>>,
   <<HostEndpoint("tcp", FALSE), Refused>>,
   <<HttpEndpoint("http", FALSE), Response(404, Ms(50))>>,
   <<OtherEndpoint(TRUE), NoNet>>}

\* Lists of up to LargeBatch descriptors of which at most one, at position
\* p, is not healthy.
InitLarge ==
  \E n \in 1..LargeBatch :
    \E p \in 0..n :
      \E f \in UnhealthyCases :
        InitWith([k \in 1..n |-> IF k = p THEN f ELSE HealthyCase])

SpecLarge == InitLarge /\ [][Next]_vars

\* main of offboarding-automation.py after its two constructors.
InitOffboarding ==
  /\ offboarding_pc = "init_session"
  /\ OffboardingConstructed
  /\ MonitorNotRun
  /\ AuditNotRun

SpecOffboarding == InitOffboarding /\ [][NextOffboarding]_vars

\* main of asset-audit-report.py after GLPIClient(...), for every answer
\* of the GLPI server to initSession.
InitAudit ==
  /\ audit_pc = "init_session"
  /\ audit_glpi \in InitSessionOutcomes
  /\ AuditConstructed
  /\ MonitorNotRun
  /\ OffboardingNotRun

SpecAudit == InitAudit /\ [][NextAudit]_vars

(***************************************************************************)
(* Properties                                                              *)
(***************************************************************************)
\* generate_json_output has run.
Written == "overall_status" \in DOMAIN output

\* run_checks has returned its list to main.
Returned ==
  \/ pc \in {"generate_json_output", "generate_console_report", "exit", "done"}
  \/ pc = "raised" /\ exception.in # "run_checks"

Positions == 1..Len(results)

\* C1: the Overall Status of generate_json_output is 'critical' iff some
\* result has status 'critical' and the critical flag set; otherwise it is
\* 'warning' if some result has status 'warning'; otherwise 'healthy'.
C1_OverallStatus ==
  Written =>
    output.overall_status =
      IF \E k \in Positions :
           results[k].status = "critical" /\ results[k].critical
        THEN "critical"
      ELSE IF \E k \in Positions : results[k].status = "warning"
        THEN "warning"
      ELSE "healthy"

\* Two failed endpoints without the flag and an Overall Status that is not
\* 'critical'.
C1_Witness ==
  /\ Written
  /\ Len(results) = 2
  /\ \A k \in Positions :
       results[k].status = "critical" /\ ~results[k].critical
  /\ output.overall_status = "healthy"

\* C2: the exit code of main is 2 exactly when the Overall Status is
\* 'critical', 1 exactly when it is 'warning', 0 exactly when it is 'healthy'.
C2_ExitCodeFollowsOverallStatus ==
  pc = "done" =>
    /\ exit_code = 2 <=> output.overall_status = "critical"
    /\ exit_code = 1 <=> output.overall_status = "warning"
    /\ exit_code = 0 <=> output.overall_status = "healthy"

\* C3: main returns 0 only when every result is 'healthy'; with any other
\* status among the results the exit code is 1 or 2.
C3_ExitZeroOnlyWhenAllHealthy ==
  (pc = "done" /\ \E k \in Positions : results[k].status # "healthy")
    => exit_code \in {1, 2}

\* C4: with an 'unknown' result among the results the Overall Status is
\* never 'healthy' and the exit code is never 0.
C4_UnknownAtLeastWarning ==
  (\E k \in Positions : results[k].status = "unknown") =>
    /\ Written => output.overall_status # "healthy"
    /\ pc = "done" => exit_code # 0

\* C5: for a descriptor of unknown check type check_endpoint returns, without
\* raising, a result with status 'unknown', available false, details
\* 'Unknown check type' and the type preserved, and the Summary is computed
\* over all results.
C5_UnknownTypeNeverRaises ==
  \A k \in 1..Len(endpoints) :
    (CheckType(endpoints[k]) \notin KnownTypes /\ calls[k] > 0) =>
      /\ k <= Len(results)
      /\ results[k].status = "unknown"
      /\ ~results[k].available
      /\ results[k].details = "Unknown check type"
      /\ results[k].type = endpoints[k].type
      /\ Written => output.summary.total_endpoints = Len(endpoints)

\* C6: no exception of a probe leaves run_checks: every descriptor that was
\* checked has its result, and run_checks returns one result per descriptor.
C6_FailuresCaughtAtRunChecks ==
  /\ ~(pc = "raised" /\ exception.in = "run_checks")
  /\ \A k \in 1..Len(endpoints) : calls[k] > 0 => k <= Len(results)
  /\ Returned => Len(results) = Len(endpoints)

\* C7: check_endpoint is called at most once per descriptor, and when
\* run_checks returns it was called exactly once for each, the result list
\* is as long as the descriptor list and its k-th result has the name of the
\* k-th descriptor.
C7_OncePerDescriptorInOrder ==
  /\ \A k \in 1..Len(endpoints) : calls[k] <= 1
  /\ \A k \in Positions : results[k].name = endpoints[k].name
  /\ Returned =>
       /\ Len(results) = Len(endpoints)
       /\ \A k \in 1..Len(endpoints) : calls[k] = 1

\* run_checks returned two results, the first of a probe that failed.
C7_Witness ==
  /\ Returned
  /\ Len(results) = 2
  /\ results[1].status = "critical" /\ ~results[1].available
  /\ results[2].status = "healthy"
  /\ calls[1] = 1

\* The probe of endpoints[k] succeeded and measured a latency.
HasLatency(k) ==
  LET t == CheckType(endpoints[k]) IN
  \/ t \in {"http", "https"} /\ env[k].get = "response"
                             /\ env[k].status_code < 400
  \/ t \in {"tcp", "ldap", "smtp"} /\ env[k].connect = "connect_ex"
                                   /\ env[k].result = 0
  \/ t = "ping" /\ \E ms \in Latencies : env[k] = Pinged(ms)

LatencyOf(k) ==
  IF CheckType(endpoints[k]) = "ping"
    THEN CHOOSE ms \in Latencies : env[k] = Pinged(ms)
    ELSE env[k].elapsed_ms

\* The grading of section 4.3 of the specification.
Graded(t) ==
  IF t <= Ms(1000) THEN "healthy"
  ELSE IF t <= Ms(3000) THEN "warning"
  ELSE "critical"

\* C8: a successful probe with latency t is 'healthy' when t <= 1000,
\* 'warning' when 1000 < t <= 3000 and 'critical' when t > 3000, in the
\* HTTP strategy (status code below 400), the TCP strategy and ping alike.
C8_LatencyGrading ==
  \A k \in Positions :
    HasLatency(k) => results[k].status = Graded(LatencyOf(k))

\* A TCP probe that connected in exactly 1000 ms and is 'healthy'.
C8_Witness ==
  \E k \in Positions :
    /\ results[k].type = "tcp"
    /\ HasLatency(k)
    /\ LatencyOf(k) = Ms(1000)
    /\ results[k].status = "healthy"

\* C9: an HTTP response with status code >= 500 gives available=true and
\* 'critical', one with 400..499 gives available=true and 'warning'; a batch
\* of one endpoint answering 404 has Overall Status 'warning' and exit code 1.
C9_HttpStatusCodes ==
  \A k \in Positions :
    (CheckType(endpoints[k]) \in {"http", "https"}
       /\ env[k].get = "response") =>
      /\ env[k].status_code >= 500 =>
           results[k].available /\ results[k].status = "critical"
      /\ (env[k].status_code >= 400 /\ env[k].status_code <= 499) =>
           results[k].available /\ results[k].status = "warning"
      /\ (Len(endpoints) = 1 /\ env[k].status_code = 404) =>
           /\ Written => output.overall_status = "warning"
           /\ pc = "done" => exit_code = 1

\* A single endpoint answered 404 after more than 3000 ms and main
\* returned 1.
C9_Witness ==
  /\ pc = "done"
  /\ Len(endpoints) = 1
  /\ CheckType(endpoints[1]) = "http"
  /\ env[1].get = "response"
  /\ env[1].status_code = 404
  /\ env[1].elapsed_ms > Ms(3000)
  /\ results[1].status = "warning" /\ results[1].available
  /\ output.overall_status = "warning"
  /\ exit_code = 1

\* C10: check_http never lets an exception out: for every descriptor and
\* every outcome of the GET it returns a result, and for a timeout, a
\* connection error or another exception the result is 'critical' and
\* unavailable with details naming the failure class.
C10_CheckHttpNeverRaises ==
  \A k \in 1..Len(endpoints) :
    (CheckType(endpoints[k]) \in {"http", "https"} /\ calls[k] > 0) =>
      /\ k <= Len(results)
      /\ env[k].get # "response" =>
           /\ results[k].status = "critical"
           /\ ~results[k].available
           /\ \/ env[k].get = "Timeout"
                   /\ results[k].details = "Connection timeout"
              \/ env[k].get = "ConnectionError"
                   /\ SubSeq(results[k].details, 1, 20) = "Connection refused: "
              \/ env[k].get = "Exception"
                   /\ SubSeq(results[k].details, 1, 7) = "Error: "

\* The connection attempt of a TCP probe failed.
TcpFailed(net) == net.connect # "connect_ex" \/ net.result # 0

\* C11: a tcp endpoint with critical=true whose connection attempt fails
\* (timeout, refused, address resolution, other socket error) has a result
\* with available=false and 'critical', the Overall Status of the cycle is
\* 'critical' and the exit code is 2.
C11_CriticalTcpFailure ==
  \A k \in Positions :
    (CheckType(endpoints[k]) = "tcp"
       /\ Get(endpoints[k], "critical", FALSE)
       /\ TcpFailed(env[k])) =>
      /\ ~results[k].available
      /\ results[k].status = "critical"
      /\ Written => output.overall_status = "critical"
      /\ pc = "done" => exit_code = 2

\* A flagged tcp endpoint timed out next to an endpoint with a warning, and
\* main returned 2.
C11_Witness ==
  /\ pc = "done"
  /\ Len(results) = 2
  /\ CheckType(endpoints[1]) = "tcp"
  /\ Get(endpoints[1], "critical", FALSE)
  /\ env[1] = ConnectTimedOut
  /\ ~results[1].available /\ results[1].status = "critical"
  /\ results[2].status = "warning"
  /\ output.overall_status = "critical"
  /\ exit_code = 2

\* C12: when run_checks is called a second time on the same HealthChecker
\* with the same descriptors and probe outcomes, the results, the counters
\* successes, warnings and critical_failures, and the Overall Status after
\* that cycle equal those after the cycle before.
C12_NoStateAcrossCycles ==
  (pc = "generate_json_output" /\ Len(prev) > 0) =>
    LET before == prev[Len(prev)] IN
    /\ results = before.results
    /\ successes = before.successes
    /\ warnings = before.warnings
    /\ critical_failures = before.critical_failures
    /\ json_output(results).overall_status
         = json_output(before.results).overall_status

C14_SocketReleased ==
  \A k \in Positions :
    "socket" \in DOMAIN probes[k] => probes[k].socket = "closed"

\* The timeout a probe hands to its network call.
AppliedTimeout(call) == IF call.call = "ping" THEN call.W ELSE call.timeout

\* The strategy-specific default timeouts of section 3 of the specification.
DefaultTimeout(check_type) ==
  IF check_type \in {"http", "https"} THEN 5
  ELSE IF check_type = "ping" THEN 2
  ELSE 3

\* C15: when a descriptor's timeout is absent or non-positive the timeout
\* applied to the probe is the strategy default (5 for http/https, 3 for
\* tcp, ldap and smtp, 2 for ping), and no network call is given a
\* non-positive timeout.
C15_TimeoutDefaults ==
  \A k \in 1..Len(endpoints) :
    "call" \in DOMAIN probes[k] =>
      /\ AppliedTimeout(probes[k]) > 0
      /\ ("timeout" \notin DOMAIN endpoints[k] \/ endpoints[k].timeout <= 0)
           => AppliedTimeout(probes[k]) = DefaultTimeout(CheckType(endpoints[k]))

\* What check_tcp returns for the host of descriptor d and its port, the
\* port being the conventional one of the protocol when d has none.
TcpOnConventionalPort(d, net) ==
  check_tcp([name |-> d.name,
             host |-> d.host,
             port |-> Get(d, "port", IF d.type = "ldap" THEN 389 ELSE 25)],
            net)

\* C16: the result of an ldap or smtp descriptor has the status, available,
\* response time and details check_tcp returns for the descriptor's host and
\* port (389 for ldap, 25 for smtp when omitted), and its type is relabelled
\* to 'ldap' or 'smtp'.
C16_LdapSmtpDelegateToTcp ==
  \A k \in Positions :
    CheckType(endpoints[k]) \in {"ldap", "smtp"} =>
      LET tcp == TcpOnConventionalPort(endpoints[k], env[k]) IN
      /\ tcp.kind = "return"
      /\ tcp.value.type = "tcp"
      /\ results[k].type = endpoints[k].type
      /\ results[k].status = tcp.value.status
      /\ results[k].available = tcp.value.available
      /\ results[k].details = tcp.value.details
      /\ ("response_time_ms" \in DOMAIN results[k])
           = ("response_time_ms" \in DOMAIN tcp.value)
      /\ "response_time_ms" \in DOMAIN results[k] =>
           results[k].response_time_ms = tcp.value.response_time_ms

\* An ldap descriptor without 'port' was probed and found port 389 open
\* with a latency in the warning band.
C16_Witness ==
  /\ Len(results) = 1
  /\ CheckType(endpoints[1]) = "ldap"
  /\ "port" \notin DOMAIN endpoints[1]
  /\ env[1] = Connected(Ms(1001))
  /\ results[1].type = "ldap"
  /\ results[1].status = "warning"
  /\ results[1].details = "Port 389 open"

\* C17: the type of every result equals the check type its descriptor
\* declares (an 'https' descriptor gives a result of type 'https'), and its
\* critical flag equals the descriptor's.
C17_ResultEchoesDescriptor ==
  \A k \in Positions :
    /\ results[k].type = CheckType(endpoints[k])
    /\ results[k].critical = Get(endpoints[k], "critical", FALSE)

\* C18: the Summary counts per Health State over all results: healthy the
\* results with status 'healthy', warnings those with 'warning', critical
\* those with 'critical' whether flagged or not, down those with
\* available=false.
C18_SummaryCounts ==
  Written =>
    /\ output.summary.healthy =
         Cardinality({k \in Positions : results[k].status = "healthy"})
    /\ output.summary.warnings =
         Cardinality({k \in Positions : results[k].status = "warning"})
    /\ output.summary.critical =
         Cardinality({k \in Positions : results[k].status = "critical"})
    /\ output.summary.down =
         Cardinality({k \in Positions : ~results[k].available})

\* The outputs of a successful ping from which no average can be read.
UnreadablePings == {PingedNoAvg, PingedBadAvg, PingedJunkAvg}

\* C19: when ping returns 0 and the average round-trip time cannot be read
\* from its output, check_ping returns available=true, 'healthy' and a
\* latency of 0.
C19_PingParseFallback ==
  \A k \in 1..Len(endpoints) :
    (CheckType(endpoints[k]) = "ping"
       /\ "host" \in DOMAIN endpoints[k] /\ "name" \in DOMAIN endpoints[k]
       /\ calls[k] > 0
       /\ env[k] \in UnreadablePings) =>
      /\ k <= Len(results)
      /\ results[k].available
      /\ results[k].status = "healthy"
      /\ results[k].response_time_ms = 0
      /\ results[k].details = "Avg RTT: 0.00ms"

\* A ping whose rtt line has a fifth piece that is not a number was reported
\* healthy with latency 0.
C19_Witness ==
  /\ Len(results) = 1
  /\ env[1] = PingedJunkAvg
  /\ results[1].type = "ping"
  /\ results[1].available
  /\ results[1].status = "healthy"
  /\ results[1].response_time_ms = 0

\* C20: a result of a probe that did not complete (HTTP timeout or
\* connection error, TCP closed or DNS failure, ping unreachable or timeout,
\* unknown type) has no response_time_ms.
C20_NoLatencyUnlessMeasured ==
  \A k \in Positions :
    ~results[k].available => "response_time_ms" \notin DOMAIN results[k]

\* The handlers that put the text of an exception into details, and the
\* prefix each of them writes before it.
CarriesMessage(net) == "msg" \in DOMAIN net

MessagePrefix(net) ==
  IF "get" \in DOMAIN net /\ net.get = "ConnectionError"
    THEN "Connection refused: "
    ELSE "Error: "

\* C21: details is bounded: the text of an exception enters details cut to
\* its first 50 characters at most, behind a fixed prefix, so no details
\* string is longer than the longest prefix (20 characters) plus 50.
C21_DetailsBounded ==
  \A k \in Positions :
    /\ Len(results[k].details) <= 20 + 50
    /\ CarriesMessage(env[k]) =>
         LET prefix == MessagePrefix(env[k])
             text == SubSeq(results[k].details, Len(prefix) + 1,
                            Len(results[k].details))
         IN  /\ SubSeq(results[k].details, 1, Len(prefix)) = prefix
             /\ Len(text) <= 50
             /\ Len(text) <= Len(env[k].msg)
             /\ text = SubSeq(env[k].msg, 1, Len(text))
             /\ Len(text) = 50 \/ text = env[k].msg

\* An exception message of 60 characters reached details as 50 characters
\* behind the longest prefix.
C21_Witness ==
  \E k \in Positions :
    /\ CarriesMessage(env[k])
    /\ Len(env[k].msg) > 50
    /\ MessagePrefix(env[k]) = "Connection refused: "
    /\ Len(results[k].details) = 70

\* The number of seconds after which a network call is given up: the timeout
\* argument of requests.get, settimeout and subprocess.run.
AbandonedAfter(call) == call.timeout

\* C22: every strategy returns within the descriptor's timeout_seconds: the
\* network call of a probe, the whole ping run of check_ping included, is
\* given up no later than timeout_seconds after it started.
C22_ReturnsWithinTimeout ==
  \A k \in Positions :
    ("call" \in DOMAIN probes[k] /\ "timeout" \in DOMAIN endpoints[k]
       /\ endpoints[k].timeout > 0)
      => AbandonedAfter(probes[k]) <= endpoints[k].timeout

\* C25: during one run_checks cycle on a new HealthChecker the counters
\* partition the results collected so far: successes counts the 'healthy'
\* results, warnings the 'warning' ones, critical_failures the results that
\* are neither and are flagged critical; successes + warnings is at most the
\* number of results, so the logged 'Failed' figure is not negative.
C25_CountersPartitionResults ==
  /\ successes = Cardinality({k \in Positions : results[k].status = "healthy"})
  /\ warnings = Cardinality({k \in Positions : results[k].status = "warning"})
  /\ critical_failures =
       Cardinality({k \in Positions :
                      /\ results[k].status \notin {"healthy", "warning"}
                      /\ results[k].critical})
  /\ successes + warnings <= Len(results)
  /\ Len(endpoints) - successes - warnings >= 0

\* In the middle of the loop, one flagged result of status 'unknown' has
\* been counted as a critical failure and the second descriptor is pending.
C25_Witness ==
  /\ pc = "run_checks"
  /\ Len(endpoints) = 2
  /\ i = 2
  /\ Len(results) = 1
  /\ results[1].status = "unknown"
  /\ results[1].critical
  /\ critical_failures = 1

\* The results of check_http that come from a response.
HttpResponses ==
  {k \in Positions :
     /\ CheckType(endpoints[k]) \in {"http", "https"}
     /\ env[k].get = "response"}

\* C26: in check_http the status code takes precedence over the latency: a
\* response with status code >= 400 is graded by the code alone ('critical'
\* from 500, 'warning' for 400..499) whatever its latency, and the latency
\* grades only the responses with a status code below 400.
C26_StatusCodeBeforeLatency ==
  \A k \in HttpResponses :
    results[k].status =
      IF env[k].status_code >= 500 THEN "critical"
      ELSE IF env[k].status_code >= 400 THEN "warning"
      ELSE Graded(env[k].elapsed_ms)

\* A 499 response that took 5000 ms was graded 'warning'.
C26_Witness ==
  \E k \in HttpResponses :
    /\ env[k].status_code = 499
    /\ env[k].elapsed_ms = Ms(5000)
    /\ results[k].status = "warning"
    /\ results[k].response_time_ms > Ms(RESPONSE_TIME_CRITICAL)

\* C27: status and availability agree in every result: a 'healthy' or
\* 'warning' result has available = true, and a result with
\* available = false has status 'critical' or 'unknown'.
C27_StatusAgreesWithAvailable ==
  \A k \in Positions :
    /\ "available" \in DOMAIN results[k]
    /\ results[k].available \in BOOLEAN
    /\ results[k].status \in {"healthy", "warning"} => results[k].available
    /\ ~results[k].available => results[k].status \in {"critical", "unknown"}

\* A descriptor of unknown type gave an unavailable result of status
\* 'unknown'.
C27_Witness ==
  \E k \in Positions :
    /\ CheckType(endpoints[k]) \notin KnownTypes
    /\ ~results[k].available
    /\ results[k].status = "unknown"

\* C28: the status line of the console report agrees with the Overall
\* Status of the same results: when the Overall Status is 'critical' the
\* line is 'CRITICAL ISSUES DETECTED', for a list of any size, and the line
\* is 'ALL SYSTEMS OPERATIONAL' only when the Overall Status is 'healthy'.
C28_ConsoleAgreesWithOverallStatus ==
  (Written /\ console_status # "") =>
    /\ output.overall_status = "critical"
         => console_status = "CRITICAL ISSUES DETECTED"
    /\ console_status = "ALL SYSTEMS OPERATIONAL"
         => output.overall_status = "healthy"

\* C29: reporting completes for the empty descriptor list: run_checks
\* returns an empty list, the Summary has all counts 0 and Overall Status
\* 'healthy', generate_console_report raises no error and main returns 0.
C29_EmptyListReported ==
  Len(endpoints) = 0 =>
    /\ exception = <<>>
    /\ pc # "raised"
    /\ Returned => results = <<>>
    /\ Written =>
         /\ output.overall_status = "healthy"
         /\ output.summary = [total_endpoints |-> 0, healthy |-> 0,
                              warnings |-> 0, critical |-> 0, down |-> 0]
    /\ pc = "done" => exit_code = 0

\* An entry of the given status is in the audit trail.
Logged(status) ==
  \E n \in 1..Len(offboarding.audit_trail) :
    offboarding.audit_trail[n].status = status

\* The offboarding ticket was created.
TicketCreated ==
  \E n \in 1..Len(offboarding.audit_trail) :
    /\ offboarding.audit_trail[n].action = "Create GLPI Ticket"
    /\ offboarding.audit_trail[n].status = "SUCCESS"

\* C23: main of the offboarding script returns 0 only when every step
\* completed successfully, 1 when some step failed without the AD account
\* step failing, and 2 when the AD account was not disabled: whenever a step
\* logged FAILED or the ticket was not created the exit code is not 0.
C23_OffboardingExitCodes ==
  offboarding_pc = "done" =>
    /\ (Logged("FAILED") \/ ~TicketCreated) => offboarding_exit_code # 0
    /\ offboarding.critical_failure => offboarding_exit_code = 2
    /\ ("steps_completed" \in DOMAIN hr_report
          /\ Logged("FAILED") /\ ~offboarding.critical_failure)
         => offboarding_exit_code = 1

\* C24: main of the asset audit script returns 0 when the report is
\* generated, 1 on an API connection error and 2 on an authentication
\* failure: a failure to reach the GLPI server during initSession gives 1,
\* and only a rejected login (a response other than 200) gives 2.
C24_AuditExitCodes ==
  audit_pc = "done" =>
    /\ audit_glpi.get = "ConnectionError" => audit_exit_code = 1
    /\ audit_exit_code = 2 =>
         audit_glpi.get = "response" /\ audit_glpi.status_code # 200
    /\ audit_exit_code = 0 => "html" \in report_files

\* C30: in the offboarding workflow steps_completed never exceeds
\* steps_total (8), so the reported 'Steps Completed: n/8' and the success
\* rate never exceed 8/8 and 100%, and the status in the ticket is
\* 'COMPLETE' exactly when all steps succeeded.
C30_StepsCompletedWithinTotal ==
  /\ offboarding.steps_total = 8
  /\ offboarding.steps_completed <= offboarding.steps_total
  /\ "success_rate" \in DOMAIN hr_report =>
       /\ hr_report.steps_completed <= hr_report.steps_total
       /\ hr_report.success_rate <= 1000
  /\ "status" \in DOMAIN ticket =>
       /\ ticket.steps_completed <= ticket.steps_total
       /\ (ticket.status = "COMPLETE") = ~Logged("FAILED")

====
